---- MODULE Spec2Model ----
(***************************************************************************)
(* The rocket simulation core of vibe-space-program: Rocket                *)
(* (src/src/rocket.js) flying among CelestialBody objects                  *)
(* (src/src/celestialBody.js) built by createScene (src/src/sceneSetup.js).*)
(*                                                                         *)
(* Numbers.  The program computes in IEEE doubles.  The model computes in  *)
(* fixed point: lengths, speeds, forces, masses and fuel are integers in   *)
(* thousandths (1.0 is 1000), time is counted in ticks of 1/60 s (the      *)
(* host's fixedTimeStep), and every quotient and square root is rounded    *)
(* to the nearest representable value, as a floating-point operation is.   *)
(* Vectors are THREE.Vector3 triples <<x, y, z>>.                          *)
(***************************************************************************)
EXTENDS Integers, Sequences, FiniteSets, TLC

(***************************************************************************)
(* Fixed-point arithmetic                                                  *)
(***************************************************************************)
\* n/d of a unit, in thousandths
Milli(n, d) == (n * 1000) \div d

Abs(a) == IF a < 0 THEN -a ELSE a

\* a / b rounded to the nearest integer (b > 0), symmetric about 0
RndNat(a, b) == IF (a % b) >= b - (a % b) THEN (a \div b) + 1 ELSE a \div b
Rnd(a, b) == IF a >= 0 THEN RndNat(a, b) ELSE -RndNat(-a, b)

\* a * b of two thousandths, in thousandths
Mul(a, b) == Rnd(a * b, 1000)

RECURSIVE SqrtIter(_, _)
SqrtIter(n, x) ==
    LET y == (x + n \div x) \div 2
    IN  IF y >= x THEN x ELSE SqrtIter(n, y)

\* floor of the square root (Newton's iteration from above)
Isqrt(n) == IF n <= 0 THEN 0 ELSE SqrtIter(n, IF n > 46340 THEN 46340 ELSE n)

\* Math.sqrt: the square root rounded to the nearest integer
Sqrt(n) == LET s == Isqrt(n) IN IF n - s * s > s THEN s + 1 ELSE s

(***************************************************************************)
(* THREE.Vector3                                                           *)
(***************************************************************************)
Vec(x, y, z) == <<x, y, z>>
ZeroVec == Vec(0, 0, 0)
\* the vector (NaN, NaN, NaN): it has no fixed-point components, and the
\* empty tuple stands for it.  It comes out of 0 * Infinity at a body's
\* centre, and every sum, quotient and product made with it is NaN again.
NaNVec == <<>>
isFinite(a) == a # NaNVec
VAdd(a, b) ==
    IF isFinite(a) /\ isFinite(b)
    THEN Vec(a[1] + b[1], a[2] + b[2], a[3] + b[3])
    ELSE NaNVec
VSub(a, b) == Vec(a[1] - b[1], a[2] - b[2], a[3] - b[3])
VNeg(a) == Vec(-a[1], -a[2], -a[3])
\* multiplyScalar by s thousandths
VScale(a, s) == Vec(Mul(a[1], s), Mul(a[2], s), Mul(a[3], s))
\* divideScalar by s thousandths
VDiv(a, s) ==
    IF isFinite(a)
    THEN Vec(Rnd(a[1] * 1000, s), Rnd(a[2] * 1000, s), Rnd(a[3] * 1000, s))
    ELSE NaNVec
VLengthSq(a) == a[1] * a[1] + a[2] * a[2] + a[3] * a[3]
VLength(a) == Sqrt(VLengthSq(a))
\* dot product of two vectors in thousandths, in thousandths
VDot(a, b) == Rnd(a[1] * b[1] + a[2] * b[2] + a[3] * b[3], 1000)
\* normalize: divideScalar(length() || 1)
VNormalize(a) == LET l == VLength(a) IN IF l = 0 THEN a ELSE VDiv(a, l)
\* vector * dt seconds, dt given in ticks of 1/60 s
VTimes(a, dt) ==
    IF isFinite(a)
    THEN Vec(Rnd(a[1] * dt, 60), Rnd(a[2] * dt, 60), Rnd(a[3] * dt, 60))
    ELSE NaNVec

(***************************************************************************)
(* CelestialBody (src/src/celestialBody.js) and the scene's two bodies     *)
(***************************************************************************)
\* the fields of a CelestialBody that the physics reads; the orbit fields get
\* the constructor's defaults (orbitTarget names a body by its place in the
\* body list, 0 is null)
CelestialBody(name, radius, position, hasAtmosphere) ==
    [name |-> name, radius |-> radius, position |-> position,
     hasAtmosphere |-> hasAtmosphere,
     isOrbiting |-> FALSE, orbitTarget |-> 0, orbitRadius |-> Milli(5, 1),
     orbitSpeed |-> Milli(1, 10), orbitAngle |-> 0, orbitClockwise |-> FALSE]

earth == CelestialBody("Earth", Milli(2, 1), ZeroVec, TRUE)
\* the Moon orbits the Earth, the first body of the list
moon ==
    [CelestialBody("Moon", Milli(1, 2), Vec(Milli(5, 1), 0, 0), FALSE) EXCEPT
        !.isOrbiting = TRUE, !.orbitTarget = 1, !.orbitRadius = Milli(5, 1),
        !.orbitSpeed = Milli(1, 10), !.orbitAngle = 0, !.orbitClockwise = FALSE]

\* createScene: celestialBodies = [earth, moon]
createScene == <<earth, moon>>

\* the game-scaled mass a body's name stands for
scaledMass(name) ==
    IF name = "Earth" THEN Milli(3, 1) ELSE IF name = "Moon" THEN Milli(1, 2) ELSE Milli(1, 1)

\* gravitational constant of the game
G == Milli(3, 10)

\* the multiplier without the "altitude < 1.0" test around it
gravityMultiplierUnclamped(altitude) ==
    Milli(1, 1) + Mul(Milli(1, 1) - altitude, Milli(1, 2))

\* the multiplier that strengthens gravity below altitude 1.0
gravityMultiplier(altitude) ==
    IF altitude < Milli(1, 1)
    THEN Milli(1, 1) + Mul(Milli(1, 1) - altitude, Milli(1, 2))
    ELSE Milli(1, 1)

\* CelestialBody.calculateGravityForce.  At the centre the distance is 0:
\* normalize leaves the direction (0, 0, 0), forceMagnitude is a positive
\* number divided by 0, Infinity, and the product 0 * Infinity is NaN in
\* every component.
calculateGravityForce(body, objectPosition, objectMass) ==
    IF ~isFinite(objectPosition) \/ objectPosition = body.position
    THEN NaNVec
    ELSE LET direction == VSub(body.position, objectPosition)
             distance == VLength(direction)
             forceMagnitude ==
                 Rnd(G * scaledMass(body.name) * objectMass, distance * distance)
             altitude == distance - body.radius
         IN  VScale(VNormalize(direction), Mul(forceMagnitude, gravityMultiplier(altitude)))

\* CelestialBody.checkCollision (a comparison with NaN is false)
checkCollision(body, objectPosition, objectRadius) ==
    /\ isFinite(objectPosition)
    /\ VLength(VSub(objectPosition, body.position)) < body.radius + objectRadius

\* Angles of an orbit are counted in sixtieths of a thousandth of a radian,
\* so that orbitSpeed * deltaTime (thousandths of a radian per second times
\* ticks of 1/60 s) is exact.  Half a turn and a quarter turn in that unit:
Pi == 188496
HalfPi == 94248

\* the cosine of an angle a of the first quarter turn, in thousandths, by its
\* power series in x = a in thousandths of a radian
CosSeries(a) ==
    LET x == Rnd(a, 60)
        x2 == Mul(x, x)
        x4 == Mul(x2, x2)
        x6 == Mul(x4, x2)
        x8 == Mul(x4, x4)
    IN  Milli(1, 1) - Rnd(x2, 2) + Rnd(x4, 24) - Rnd(x6, 720) + Rnd(x8, 40320)

\* Math.cos
cos(a) ==
    LET r == a % (2 * Pi)
    IN  IF r <= HalfPi THEN CosSeries(r)
        ELSE IF r <= Pi THEN -CosSeries(Pi - r)
        ELSE IF r <= Pi + HalfPi THEN -CosSeries(r - Pi)
        ELSE CosSeries(2 * Pi - r)

\* Math.sin
sin(a) == cos(a - HalfPi)

\* the point of the orbit of `body` at its orbitAngle, around the body it
\* orbits
OrbitPosition(body, bodies) ==
    LET target == bodies[body.orbitTarget].position
    IN  Vec(target[1] + Mul(cos(body.orbitAngle), body.orbitRadius),
            target[2] + Mul(sin(body.orbitAngle), body.orbitRadius),
            target[3])

\* update with clockwise and counter-clockwise orbits turned the same way
bodyUpdateOneWay(body, bodies, deltaTime) ==
    IF body.isOrbiting /\ body.orbitTarget # 0
    THEN LET turned == [body EXCEPT !.orbitAngle = @ + body.orbitSpeed * deltaTime]
         IN  [turned EXCEPT !.position = OrbitPosition(turned, bodies)]
    ELSE body

\* CelestialBody.update(deltaTime) of one body of the list
bodyUpdate(body, bodies, deltaTime) ==
    IF body.isOrbiting /\ body.orbitTarget # 0
    THEN LET direction == IF body.orbitClockwise THEN -1 ELSE 1
             turned == [body EXCEPT
                            !.orbitAngle = @ + body.orbitSpeed * deltaTime * direction]
         IN  [turned EXCEPT !.position = OrbitPosition(turned, bodies)]
    ELSE body

\* for (const body of celestialBodies) body.update(deltaTime): each body is
\* updated in list order and sees the bodies before it already moved
RECURSIVE updateBodies(_, _, _)
updateBodies(bodies, i, deltaTime) ==
    IF i > Len(bodies) THEN bodies
    ELSE updateBodies([bodies EXCEPT ![i] = bodyUpdate(bodies[i], bodies, deltaTime)],
                      i + 1, deltaTime)

\* CelestialBody.setOrbitParameters({orbitClockwise})
setOrbitParameters(body, orbitClockwise) ==
    [body EXCEPT !.orbitClockwise = orbitClockwise]

(***************************************************************************)
(* Rocket (src/src/rocket.js)                                              *)
(***************************************************************************)
mass == Milli(2, 1)
earthMass == Milli(3, 1)
maxFuel == Milli(100, 1)
fuelConsumptionRate == Milli(7, 1)
dragCoefficient == Milli(5, 1000)
atmosphereHeight == Milli(3, 1)
collisionCooldown == 6      \* 0.1 s in ticks of 1/60 s
crashSpeed == Milli(3, 10)
liftoffImpulse == Milli(5, 100)
friction == Milli(95, 100)
objectRadius == Milli(1, 10)

\* what the last call did, kept beside the rocket's fields for the properties:
\* dispatched = the window events it dispatched, did = the branches it took
Clear(r) == [r EXCEPT !.dispatched = <<>>, !.did = {}]
Dispatch(r, e) == [r EXCEPT !.dispatched = Append(@, e)]
Did(r, what) == [r EXCEPT !.did = @ \cup {what}]

\* Rocket.initializeRocket: the state of a new rocket and of a reset one
initializeRocket(bodies) ==
    LET hasPrimary == Len(bodies) > 0
        earthRadius == IF hasPrimary THEN bodies[1].radius ELSE Milli(2, 1)
        position ==
            IF hasPrimary
            THEN VAdd(Vec(0, bodies[1].radius + Milli(1, 10), 0), bodies[1].position)
            ELSE Vec(0, earthRadius + Milli(1, 10), 0)
    IN  [ earthRadius |-> earthRadius,
          position |-> position,
          velocity |-> ZeroVec,
          force |-> ZeroVec,
          thrustDirection |->
              IF hasPrimary
              THEN VNormalize(VSub(position, bodies[1].position))
              ELSE Vec(0, Milli(1, 1), 0),
          thrustMagnitude |-> 0,
          isInOrbit |-> FALSE,
          orbitPeriod |-> 0,
          fuel |-> maxFuel,
          outOfFuel |-> FALSE,
          hasStarted |-> FALSE,
          hasCrashed |-> FALSE,
          crashCount |-> 0,
          lastCollisionTime |-> 0,
          orbitFeedbackTriggered |-> FALSE,
          crashEffectTriggered |-> FALSE,
          dispatched |-> <<>>,
          did |-> {} ]

\* one body's share of the loop with "<=" for "<" in the distance test
GravityOfAtRange(r, body) ==
    IF isFinite(r.position)
       /\ VLength(VSub(r.position, body.position)) <= body.radius * 20
    THEN calculateGravityForce(body, r.position, mass)
    ELSE ZeroVec

\* one body's share of Rocket.applyGravity's loop
GravityOf(r, body) ==
    IF isFinite(r.position)
       /\ VLength(VSub(r.position, body.position)) < body.radius * 20
    THEN calculateGravityForce(body, r.position, mass)
    ELSE ZeroVec

RECURSIVE GravitySum(_, _, _)
GravitySum(r, bodies, i) ==
    IF i > Len(bodies) THEN ZeroVec
    ELSE VAdd(GravityOf(r, bodies[i]), GravitySum(r, bodies, i + 1))

\* the Earth-only gravity used when the body list is empty
FallbackGravity(r) ==
    IF ~isFinite(r.position) \/ r.position = ZeroVec
    THEN NaNVec
    ELSE LET dist == VLength(r.position)
             altitude == dist - r.earthRadius
             directionToEarth == VNormalize(VNeg(r.position))
             gravityMagnitude ==
                 Mul(Rnd(G * earthMass * mass, dist * dist), gravityMultiplier(altitude))
         IN  VScale(directionToEarth, gravityMagnitude)

\* Rocket.applyGravity
applyGravity(r, bodies) ==
    IF ~r.hasStarted \/ r.hasCrashed THEN r
    ELSE IF Len(bodies) > 0
         THEN Did([r EXCEPT !.force = VAdd(@, GravitySum(r, bodies, 1))], "gravity")
         ELSE Did([r EXCEPT !.force = VAdd(@, FallbackGravity(r))], "gravity")

\* Math.exp(-x) at x = -2.0, -1.75, ..., 3.0, in thousandths
ExpTable ==
    << 7389, 5755, 4482, 3490, 2718, 2117, 1649, 1284, 1000, 779, 607,
       472, 368, 287, 223, 174, 135, 105, 82, 64, 50 >>

\* Math.exp(-altitude / scaleHeight) with scaleHeight = atmosphereHeight / 3:
\* the table above, interpolated linearly (altitudes below -2.0 read as -2.0)
atmosphereDensity(altitude) ==
    LET scaleHeight == Rnd(atmosphereHeight, 3)
        x == Rnd(altitude * 1000, scaleHeight)
        y == IF x < -2000 THEN 0 ELSE IF x > 3000 THEN 5000 ELSE x + 2000
        i == (y \div 250) + 1
        lo == ExpTable[i]
        hi == IF i < Len(ExpTable) THEN ExpTable[i + 1] ELSE lo
    IN  lo - Rnd((lo - hi) * (y % 250), 250)

\* the drag force at the given altitude: opposite to the velocity, none when
\* the speed squared is at most 0.0001
DragForce(r, altitude) ==
    LET speedSq == VLengthSq(r.velocity)
        dragMagnitude ==
            Mul(dragCoefficient, Mul(atmosphereDensity(altitude), Rnd(speedSq, 1000)))
    IN  IF speedSq > 100
        THEN VScale(VNormalize(r.velocity), -dragMagnitude)
        ELSE ZeroVec

\* Rocket.applyDrag's loop from body i on: the first body with an atmosphere
\* whose atmosphere holds the rocket gives the drag, and the loop breaks
RECURSIVE DragFrom(_, _, _)
DragFrom(r, bodies, i) ==
    IF i > Len(bodies) \/ ~isFinite(r.position) THEN ZeroVec
    ELSE LET body == bodies[i]
             altitude == VLength(VSub(r.position, body.position)) - body.radius
         IN  IF body.hasAtmosphere /\ altitude < Milli(3, 1)
             THEN DragForce(r, altitude)
             ELSE DragFrom(r, bodies, i + 1)

\* the Earth-only drag used when the body list is empty
FallbackDrag(r) ==
    IF ~isFinite(r.position) THEN ZeroVec
    ELSE LET altitude == VLength(r.position) - r.earthRadius
         IN  IF altitude < atmosphereHeight THEN DragForce(r, altitude) ELSE ZeroVec

\* Rocket.applyDrag
applyDrag(r, bodies) ==
    IF ~r.hasStarted \/ r.hasCrashed THEN r
    ELSE IF Len(bodies) > 0
         THEN Did([r EXCEPT !.force = VAdd(@, DragFrom(r, bodies, 1))], "drag")
         ELSE Did([r EXCEPT !.force = VAdd(@, FallbackDrag(r))], "drag")

\* the liftoff branch without its "if (!this.hasStarted)" test
LiftoffEveryStep(r) ==
    Did([r EXCEPT !.hasStarted = TRUE,
                  !.velocity = VAdd(@, VScale(r.thrustDirection, liftoffImpulse))],
        "impulse")

\* the liftoff branch of Rocket.applyThrust: start the simulation and add
\* the 0.05 impulse along the thrust direction
Liftoff(r) ==
    IF ~r.hasStarted
    THEN Did([r EXCEPT !.hasStarted = TRUE,
                       !.velocity = VAdd(@, VScale(r.thrustDirection, liftoffImpulse))],
             "impulse")
    ELSE r

\* Rocket.applyThrust with ">= 0" for "> 0" in the thrust test
applyThrustAtZero(r) ==
    IF r.hasCrashed \/ r.outOfFuel
    THEN r
    ELSE IF r.thrustMagnitude >= 0 /\ r.fuel > 0
         THEN Liftoff(Did([r EXCEPT
                  !.force = VAdd(@, VScale(r.thrustDirection, r.thrustMagnitude))],
                  "thrust"))
         ELSE r

\* Rocket.applyThrust looking at the requested thrust alone
applyThrustUngated(r) ==
    IF r.thrustMagnitude > 0
    THEN Liftoff(Did([r EXCEPT
             !.force = VAdd(@, VScale(r.thrustDirection, r.thrustMagnitude))],
             "thrust"))
    ELSE r

\* Rocket.applyThrust
applyThrust(r) ==
    IF r.hasCrashed \/ r.outOfFuel
    THEN r
    ELSE IF r.thrustMagnitude > 0 /\ r.fuel > 0
         THEN Liftoff(Did([r EXCEPT
                  !.force = VAdd(@, VScale(r.thrustDirection, r.thrustMagnitude))],
                  "thrust"))
         ELSE r

\* Math.max(0, x)
Max0(x) == IF x > 0 THEN x ELSE 0

\* Rocket.consumeFuel with the clamp at 0 left out
consumeFuelUnclamped(r, deltaTime) ==
    IF r.thrustMagnitude > 0 /\ r.fuel > 0
    THEN LET fuelConsumed == Rnd(Mul(fuelConsumptionRate, r.thrustMagnitude) * deltaTime, 60)
             left == r.fuel - fuelConsumed
         IN  [r EXCEPT !.fuel = left, !.outOfFuel = (left <= 0) \/ @]
    ELSE r

\* Rocket.consumeFuel (deltaTime in ticks of 1/60 s)
consumeFuel(r, deltaTime) ==
    IF r.thrustMagnitude > 0 /\ r.fuel > 0
    THEN LET fuelConsumed == Rnd(Mul(fuelConsumptionRate, r.thrustMagnitude) * deltaTime, 60)
             left == Max0(r.fuel - fuelConsumed)
         IN  IF left <= 0
             THEN [r EXCEPT !.fuel = 0, !.outOfFuel = TRUE]
             ELSE [r EXCEPT !.fuel = left]
    ELSE r

\* the loop of Rocket.calculateOrbitPeriod from body i on: the index of the
\* closest body, the earlier one on a tie (best = 0: none found so far)
RECURSIVE ClosestFrom(_, _, _, _)
ClosestFrom(r, bodies, i, best) ==
    IF i > Len(bodies) \/ ~isFinite(r.position) THEN best
    ELSE LET distance == VLength(VSub(r.position, bodies[i].position))
             minDistance == VLength(VSub(r.position, bodies[best].position))
         IN  IF best = 0 \/ distance < minDistance
             THEN ClosestFrom(r, bodies, i + 1, i)
             ELSE ClosestFrom(r, bodies, i + 1, best)

\* 4 * pi^2, in hundredths
FourPiSquared == Rnd(4 * 98696, 100)

\* Kepler's third law, sqrt(4 pi^2 / (G M) * a^3), in tenths of a second
\* (a is first rounded to tenths of a unit)
orbitalPeriod(M, semiMajorAxis) ==
    LET a == Rnd(semiMajorAxis, 100)
    IN  Sqrt(FourPiSquared * Rnd(a * a * a, Mul(G, M)))

\* the "not in orbit" end of Rocket.calculateOrbitPeriod
NotInOrbit(r) ==
    [r EXCEPT !.isInOrbit = FALSE, !.orbitPeriod = 0, !.orbitFeedbackTriggered = FALSE]

\* the "in orbit" end, dispatching without looking at the triggered flag
InOrbitEveryStep(r, period) ==
    Dispatch([r EXCEPT !.isInOrbit = TRUE, !.orbitPeriod = period,
                       !.orbitFeedbackTriggered = TRUE], "orbitAchieved")

\* the "in orbit" end of Rocket.calculateOrbitPeriod
InOrbit(r, period) ==
    LET o == [r EXCEPT !.isInOrbit = TRUE, !.orbitPeriod = period]
    IN  IF ~r.orbitFeedbackTriggered
        THEN Dispatch([o EXCEPT !.orbitFeedbackTriggered = TRUE], "orbitAchieved")
        ELSE o

\* the orbit test without the test of the angle between position and velocity
StableOrbitAnyDirection(r, body) ==
    LET minDistance == VLength(VSub(r.position, body.position))
        altitude == minDistance - body.radius
        speed == VLength(r.velocity)
        M == scaledMass(body.name)
        escapeVelocity == Sqrt(Rnd(2 * G * M * 1000, minDistance))
        circularOrbitVelocity == Sqrt(Rnd(G * M * 1000, minDistance))
        minAltitude == IF body.name = "Earth" THEN Milli(2, 1) ELSE Milli(1, 1)
        minSpeed == Mul(circularOrbitVelocity, Milli(8, 10))
        maxSpeed == Mul(escapeVelocity, Milli(9, 10))
    IN  /\ altitude > minAltitude
        /\ speed > minSpeed
        /\ speed < maxSpeed

\* the orbit test of Rocket.calculateOrbitPeriod against one body
StableOrbit(r, body) ==
    LET minDistance == VLength(VSub(r.position, body.position))
        altitude == minDistance - body.radius
        speed == VLength(r.velocity)
        M == scaledMass(body.name)
        escapeVelocity == Sqrt(Rnd(2 * G * M * 1000, minDistance))
        circularOrbitVelocity == Sqrt(Rnd(G * M * 1000, minDistance))
        minAltitude == IF body.name = "Earth" THEN Milli(2, 1) ELSE Milli(1, 1)
        minSpeed == Mul(circularOrbitVelocity, Milli(8, 10))
        maxSpeed == Mul(escapeVelocity, Milli(9, 10))
        dotProduct ==
            VDot(VNormalize(VSub(r.position, body.position)), VNormalize(r.velocity))
    IN  /\ altitude > minAltitude
        /\ speed > minSpeed
        /\ speed < maxSpeed
        /\ Abs(dotProduct) < Milli(1, 2)

\* Rocket.calculateOrbitPeriod.  With an empty body list, or a position
\* that is NaN, minDistance stays Infinity, so the escape velocity is 0 and
\* "speed < maxSpeed" fails.
calculateOrbitPeriod(r, bodies) ==
    LET k == ClosestFrom(r, bodies, 1, 0)
        c == Did(r, "classify")
    IN  IF k = 0 THEN NotInOrbit(c)
        ELSE IF StableOrbit(c, bodies[k])
             THEN InOrbit(c, orbitalPeriod(scaledMass(bodies[k].name),
                                           VLength(VSub(r.position, bodies[k].position))))
             ELSE NotInOrbit(c)

\* the crash branch with the rocketCrash notification left out
CrashSilent(r) ==
    LET c == Did([r EXCEPT !.hasCrashed = TRUE], "crash")
    IN  IF ~c.crashEffectTriggered
        THEN Dispatch([c EXCEPT !.crashEffectTriggered = TRUE], "rocketCrashEffect")
        ELSE c

\* the crash branch of Rocket.update's collision handling
Crash(r) ==
    LET c == Dispatch(Did([r EXCEPT !.hasCrashed = TRUE], "crash"), "rocketCrash")
    IN  IF ~c.crashEffectTriggered
        THEN Dispatch([c EXCEPT !.crashEffectTriggered = TRUE], "rocketCrashEffect")
        ELSE c

\* the gentle-contact branch: `normal.multiplyScalar(radius + 0.1).add(center)`
\* changes `normal` itself, so the vector the velocity is then projected on
\* is the corrected position, not the unit normal
GentleContact(r, center, radius) ==
    LET unit == VNormalize(VSub(r.position, center))
        normal == VAdd(VScale(unit, radius + Milli(1, 10)), center)
        normalVelocity == VScale(normal, VDot(r.velocity, normal))
    IN  Did([r EXCEPT !.position = normal,
                      !.velocity = VScale(VSub(r.velocity, normalVelocity), friction)],
            "gentle")

\* penetrating a body when "any collision causes a crash"
CollideAlwaysCrash(r, center, radius) ==
    Crash(Did([r EXCEPT !.lastCollisionTime = 0], "collision"))

\* what Rocket.update does on penetrating a body
Collide(r, center, radius) ==
    LET c == Did([r EXCEPT !.lastCollisionTime = 0], "collision")
    IN  IF VLength(c.velocity) > crashSpeed /\ c.hasStarted
        THEN Crash(c)
        ELSE GentleContact(c, center, radius)

\* the collision loop without its break: the last penetrated body wins
RECURSIVE LastCollision(_, _, _)
LastCollision(r, bodies, i) ==
    IF i > Len(bodies) THEN 0
    ELSE LET later == LastCollision(r, bodies, i + 1)
         IN  IF later > 0 THEN later
             ELSE IF checkCollision(bodies[i], r.position, objectRadius) THEN i ELSE 0

\* the collision loop of Rocket.update from body i on: the index of the first
\* body the rocket penetrates, 0 when there is none
RECURSIVE FirstCollision(_, _, _)
FirstCollision(r, bodies, i) ==
    IF i > Len(bodies) THEN 0
    ELSE IF checkCollision(bodies[i], r.position, objectRadius) THEN i
         ELSE FirstCollision(r, bodies, i + 1)

\* the collision handling of Rocket.update once the cooldown has elapsed
CheckCollisions(r, bodies) ==
    LET k == FirstCollision(r, bodies, 1)
    IN  IF Len(bodies) > 0
        THEN IF k > 0
             THEN Collide(Did(r, ToString(k)), bodies[k].position, bodies[k].radius)
             ELSE [r EXCEPT !.crashCount = 0]
        ELSE IF isFinite(r.position) /\ VLength(r.position) < r.earthRadius
             THEN Collide(r, ZeroVec, r.earthRadius)
             ELSE [r EXCEPT !.crashCount = 0]

\* velocity += force / mass * dt; position += velocity * dt
Integrate(r, deltaTime) ==
    LET acceleration == VDiv(r.force, mass)
        velocity == VAdd(r.velocity, VTimes(acceleration, deltaTime))
    IN  [r EXCEPT !.velocity = velocity,
                  !.position = VAdd(@, VTimes(velocity, deltaTime))]

\* "Prevent NaN or Infinity in position or velocity": the velocity is set to
\* zero, the position is left as it is
resetInvalid(r) ==
    IF ~isFinite(r.position) \/ ~isFinite(r.velocity)
    THEN Did([r EXCEPT !.velocity = ZeroVec], "invalid")
    ELSE r

\* Physics with ">=" for ">" in the cooldown test
PhysicsCooldownAtLeast(r, bodies, deltaTime) ==
    LET moved == resetInvalid(Integrate(r, deltaTime))
        timed == [moved EXCEPT !.lastCollisionTime = @ + deltaTime]
        collided ==
            IF timed.lastCollisionTime >= collisionCooldown
            THEN CheckCollisions(Did(timed, "cooldownElapsed"), bodies)
            ELSE timed
    IN  IF collided.hasCrashed THEN collided
        ELSE calculateOrbitPeriod(collided, bodies)

\* the part of Rocket.update that runs once the simulation has started
Physics(r, bodies, deltaTime) ==
    LET moved == resetInvalid(Integrate(r, deltaTime))
        timed == [moved EXCEPT !.lastCollisionTime = @ + deltaTime]
        collided ==
            IF timed.lastCollisionTime > collisionCooldown
            THEN CheckCollisions(Did(timed, "cooldownElapsed"), bodies)
            ELSE timed
    IN  IF collided.hasCrashed THEN collided
        ELSE calculateOrbitPeriod(collided, bodies)

\* the first half of Rocket.update: consume fuel, then zero the force and
\* accumulate gravity, drag and thrust
Forces(r, bodies, deltaTime) ==
    applyThrust(applyDrag(applyGravity(
        [consumeFuel(r, deltaTime) EXCEPT !.force = ZeroVec], bodies), bodies))

\* Rocket.update with the "skip if crashed" return left out
updateCrashed(r, bodies, deltaTime) ==
    LET forced == Forces(r, bodies, deltaTime)
    IN  IF forced.hasStarted THEN Physics(forced, bodies, deltaTime) ELSE forced

\* Rocket.update (deltaTime in ticks of 1/60 s)
update(r, bodies, deltaTime) ==
    IF r.hasCrashed THEN r
    ELSE LET forced == Forces(r, bodies, deltaTime)
         IN  IF forced.hasStarted THEN Physics(forced, bodies, deltaTime) ELSE forced

\* Rocket.setThrustMagnitude with the crashed / out-of-fuel check left out
setThrustMagnitudeUnchecked(r, mag) == [r EXCEPT !.thrustMagnitude = mag]

\* Rocket.setThrustMagnitude
setThrustMagnitude(r, mag) ==
    IF r.hasCrashed \/ r.outOfFuel
    THEN [r EXCEPT !.thrustMagnitude = 0]
    ELSE [r EXCEPT !.thrustMagnitude = mag]

\* cosine and sine of an angle given in quarter turns, in thousandths
Cos(quarters) == << Milli(1, 1), 0, -Milli(1, 1), 0 >>[(quarters % 4) + 1]
Sin(quarters) == << 0, Milli(1, 1), 0, -Milli(1, 1) >>[(quarters % 4) + 1]

\* Vector3.applyAxisAngle about the x axis
applyAxisAngleX(v, quarters) ==
    Vec(v[1],
        Mul(v[2], Cos(quarters)) - Mul(v[3], Sin(quarters)),
        Mul(v[2], Sin(quarters)) + Mul(v[3], Cos(quarters)))

\* Vector3.applyAxisAngle about the z axis
applyAxisAngleZ(v, quarters) ==
    Vec(Mul(v[1], Cos(quarters)) - Mul(v[2], Sin(quarters)),
        Mul(v[1], Sin(quarters)) + Mul(v[2], Cos(quarters)),
        v[3])

\* Rocket.rotate (the angle in quarter turns)
rotate(r, quarters) ==
    IF r.hasCrashed THEN r
    ELSE [r EXCEPT !.thrustDirection = VNormalize(applyAxisAngleZ(@, quarters))]

\* Math.min(a, b)
Min(a, b) == IF a < b THEN a ELSE b

\* the elements of a sequence
Range(q) == {q[i] : i \in DOMAIN q}

\* Rocket.refillFuel
refillFuel(r, amount) ==
    LET fuel == Min(maxFuel, r.fuel + amount)
    IN  [r EXCEPT !.fuel = fuel, !.outOfFuel = (fuel <= 0)]

\* Rocket.recoverFromCrash
recoverFromCrash(r) ==
    refillFuel([r EXCEPT !.hasCrashed = FALSE, !.crashCount = 0,
                         !.crashEffectTriggered = FALSE, !.velocity = ZeroVec],
               maxFuel)

\* Rocket.reset keeping the fuel gauge
resetKeepingFuel(r, bodies) == [initializeRocket(bodies) EXCEPT !.fuel = r.fuel]

\* Rocket.reset
reset(r, bodies) == initializeRocket(bodies)

(***************************************************************************)
(* The state machine: one rocket, driven by calls of its methods           *)
(***************************************************************************)
VARIABLES
    celestialBodies,    \* Rocket.celestialBodies, the scene's body list (no
                        \* method of Rocket moves a body)
    rocket,             \* the Rocket's fields, and what the last call did
    pre,                \* the rocket as it was before the last call
    op,                 \* the last call: its name and its argument
    calls,              \* the number of calls made so far
    twin,               \* a second Rocket, built on a body list of the same
                        \* configuration and given the same calls
    host                \* the host's frame loop (src/src/main.js): its
                        \* accumulator, speed setting and place in animate

vars == <<celestialBodies, rocket, pre, op, calls, twin, host>>

\* the host's physics step, 1/60 s, in ticks
fixedTimeStep == 1
\* updateControls' thrustPower
thrustPower == Milli(6, 10)

\* the host before its first frame: accumulator 0 and speed 1x; `running`
\* tells that animate is inside its fixed-step loop, and frames, frameDelta,
\* entered and steps record the last frame: how many frames were drawn, what
\* clock.getDelta() returned, the accumulator the loop was entered with and
\* the number of rocket.update calls the frame has made
initializeHost ==
    [accumulator |-> 0, currentSpeedIndex |-> 0, running |-> FALSE,
     frames |-> 0, frameDelta |-> 0, entered |-> 0, steps |-> 0]

\* how many calls a behaviour makes
MaxCalls == 6
\* the coordinates, speeds and closeness to a body's centre the fixed-point
\* arithmetic is exact enough for
MaxCoordinate == 25000
MaxVelocity == 10000
MinDistance == 100

\* the arguments the calls are made with
DeltaTimes == {fixedTimeStep, 6 * fixedTimeStep, 60 * fixedTimeStep}
Angles == {1, -1}
Magnitudes == {0, thrustPower, 12 * thrustPower}
Amounts == {maxFuel, Milli(2, 10) - maxFuel}

RECURSIVE AwayFromCentres(_, _, _)
AwayFromCentres(p, bodies, i) ==
    IF i > Len(bodies) THEN TRUE
    ELSE /\ VLength(VSub(p, bodies[i].position)) >= MinDistance
         /\ AwayFromCentres(p, bodies, i + 1)

Representable(r, bodies) ==
    /\ \A i \in 1..3 : Abs(r.velocity[i]) <= MaxVelocity
    /\ isFinite(r.position) =>
          /\ \A i \in 1..3 : Abs(r.position[i]) <= MaxCoordinate
          /\ AwayFromCentres(r.position, bodies, 1)
          /\ (Len(bodies) = 0 => VLength(r.position) >= MinDistance)

\* the method `name` of the Rocket r, called with `arg`
Apply(r, bodies, name, arg) ==
    CASE name = "update" -> update(r, bodies, arg)
      [] name = "setThrustMagnitude" -> setThrustMagnitude(r, arg)
      [] name = "rotate" -> rotate(r, arg)
      [] name = "refillFuel" -> refillFuel(r, arg)
      [] name = "recoverFromCrash" -> recoverFromCrash(r)
      [] name = "reset" -> reset(r, bodies)

\* a call of one method: the rocket becomes `after` (calls are followed as
\* long as the result stays within the fixed-point range), and the same call
\* is made on the second rocket
Call(name, arg, after) ==
    /\ calls < MaxCalls
    /\ Representable(after, celestialBodies)
    /\ rocket' = after
    /\ pre' = rocket
    /\ op' = [name |-> name, arg |-> arg]
    /\ calls' = calls + 1
    /\ twin' = Apply(Clear(twin), celestialBodies, name, arg)
    /\ UNCHANGED <<celestialBodies, host>>

Init ==
    /\ celestialBodies = createScene
    /\ rocket = initializeRocket(celestialBodies)
    /\ pre = rocket
    /\ op = [name |-> "constructor", arg |-> 0]
    /\ calls = 0
    /\ twin = initializeRocket(celestialBodies)
    /\ host = initializeHost

\* update(deltaTime) with the rocket stepped by the time its own host's frame
\* took instead of the deltaTime of the call
UpdateByFrameTime ==
    \E deltaTime \in DeltaTimes, frameTime \in DeltaTimes :
        Call("update", deltaTime, update(Clear(rocket), celestialBodies, frameTime))

Update ==
    \E deltaTime \in DeltaTimes :
        Call("update", deltaTime, update(Clear(rocket), celestialBodies, deltaTime))

SetThrustMagnitude ==
    \E mag \in Magnitudes :
        Call("setThrustMagnitude", mag, setThrustMagnitude(Clear(rocket), mag))

Rotate ==
    \E angle \in Angles : Call("rotate", angle, rotate(Clear(rocket), angle))

RefillFuel ==
    \E amount \in Amounts : Call("refillFuel", amount, refillFuel(Clear(rocket), amount))

RecoverFromCrash == Call("recoverFromCrash", 0, recoverFromCrash(Clear(rocket)))

Reset == Call("reset", 0, reset(Clear(rocket), celestialBodies))

Next ==
    \/ Update
    \/ SetThrustMagnitude
    \/ Rotate
    \/ RefillFuel
    \/ RecoverFromCrash
    \/ Reset

Spec == Init /\ [][Next]_vars

(***************************************************************************)
(* One update of a rocket in flight: the constructor takes any body list,  *)
(* and flight brings the rocket to any position and velocity.  The body    *)
(* list, the rocket's position, velocity, requested thrust and collision   *)
(* timer are drawn, and the rocket takes one update.                       *)
(***************************************************************************)
\* a Moon that reaches into the Earth's surface, and a body of another name
nearMoon == CelestialBody("Moon", Milli(1, 2), Vec(Milli(22, 10), 0, 0), FALSE)
mars == CelestialBody("Mars", Milli(1, 1), Vec(Milli(3, 1), Milli(4, 1), 0), TRUE)

\* the body lists a Rocket is constructed on
Scenes == {createScene, <<nearMoon, earth>>, <<earth, nearMoon>>, <<earth, mars>>}

\* the coordinates and velocity components a rocket in flight is drawn with
Coordinates ==
    {-Milli(5, 1), -Milli(43, 10), 0, Milli(15, 10), Milli(205, 100), Milli(3, 1),
     Milli(45, 10)}
Speeds == {-Milli(45, 100), -Milli(2, 10), 0, Milli(2, 10), Milli(45, 100)}

\* a started rocket in flight on the body list `bodies`
InFlight(bodies, position, velocity, thrustMagnitude, lastCollisionTime) ==
    [initializeRocket(bodies) EXCEPT
        !.hasStarted = TRUE,
        !.position = position,
        !.velocity = velocity,
        !.thrustMagnitude = thrustMagnitude,
        !.lastCollisionTime = lastCollisionTime]

InitDrawn ==
    /\ celestialBodies \in Scenes
    /\ \E x \in Coordinates, y \in Coordinates, vx \in Speeds, vy \in Speeds,
          thrustMagnitude \in {0, thrustPower},
          lastCollisionTime \in {0, collisionCooldown} :
            rocket = InFlight(celestialBodies, Vec(x, y, 0), Vec(vx, vy, 0),
                              thrustMagnitude, lastCollisionTime)
    /\ Representable(rocket, celestialBodies)
    /\ pre = rocket
    /\ op = [name |-> "constructor", arg |-> 0]
    /\ calls = MaxCalls - 1
    /\ twin = rocket
    /\ host = initializeHost

SpecDrawn == InitDrawn /\ [][Update]_vars

(***************************************************************************)
(* Updates of a rocket at a body's centre: a rocket whose step ends at the *)
(* centre of a body crashes or is stopped there, recoverFromCrash leaves   *)
(* it where it is, and its next updates start from the centre.             *)
(***************************************************************************)
InitCentre ==
    /\ celestialBodies \in Scenes
    /\ \E i \in 1..Len(celestialBodies), vx \in Speeds, vy \in Speeds,
          thrustMagnitude \in {0, thrustPower},
          lastCollisionTime \in {0, collisionCooldown} :
            rocket = InFlight(celestialBodies, celestialBodies[i].position,
                              Vec(vx, vy, 0), thrustMagnitude, lastCollisionTime)
    /\ pre = rocket
    /\ op = [name |-> "constructor", arg |-> 0]
    /\ calls = MaxCalls - 2
    /\ twin = rocket
    /\ host = initializeHost

SpecCentre == InitCentre /\ [][Update]_vars

(***************************************************************************)
(* One update of a rocket in flight on the empty body list, where gravity, *)
(* drag, collision and the orbit classifier take their Earth-only          *)
(* branches.  The drawn states include the circular orbit at distance 6.   *)
(***************************************************************************)
\* the speed of the circular orbit at a distance from a body of mass M
circularVelocity(M, distance) == Sqrt(Rnd(G * M * 1000, distance))

FallbackCoordinates == {-Milli(6, 1), 0, Milli(205, 100), Milli(6, 1)}
FallbackSpeeds ==
    {-circularVelocity(earthMass, Milli(6, 1)), 0, Milli(2, 10),
     circularVelocity(earthMass, Milli(6, 1))}

InitEmpty ==
    /\ celestialBodies = <<>>
    /\ \E x \in FallbackCoordinates, y \in FallbackCoordinates,
          vx \in FallbackSpeeds, vy \in FallbackSpeeds,
          thrustMagnitude \in {0, thrustPower},
          lastCollisionTime \in {0, collisionCooldown} :
            rocket = InFlight(celestialBodies, Vec(x, y, 0), Vec(vx, vy, 0),
                              thrustMagnitude, lastCollisionTime)
    /\ Representable(rocket, celestialBodies)
    /\ pre = rocket
    /\ op = [name |-> "constructor", arg |-> 0]
    /\ calls = MaxCalls - 1
    /\ twin = rocket
    /\ host = initializeHost

SpecEmpty == InitEmpty /\ [][Update]_vars

(***************************************************************************)
(* Two updates of a rocket in flight between the Earth and a Moon brought  *)
(* to the smallest orbit radius the host's slider offers, 3.0: there the   *)
(* rocket can circle the Moon within reach of the Earth's surface.         *)
(***************************************************************************)
lowMoon ==
    [moon EXCEPT !.orbitRadius = Milli(3, 1), !.position = Vec(Milli(3, 1), 0, 0)]

NearCoordinates == {Milli(137, 100), Milli(16, 10), Milli(25, 10)}
NearSpeeds == {-Milli(23, 100), 0, Milli(23, 100)}

InitNear ==
    /\ celestialBodies = <<earth, lowMoon>>
    /\ \E x \in NearCoordinates, y \in NearCoordinates,
          vx \in NearSpeeds, vy \in NearSpeeds,
          thrustMagnitude \in {0, thrustPower},
          lastCollisionTime \in {0, collisionCooldown} :
            rocket = InFlight(celestialBodies, Vec(x, y, 0), Vec(vx, vy, 0),
                              thrustMagnitude, lastCollisionTime)
    /\ Representable(rocket, celestialBodies)
    /\ pre = rocket
    /\ op = [name |-> "constructor", arg |-> 0]
    /\ calls = MaxCalls - 2
    /\ twin = rocket
    /\ host = initializeHost

SpecNear == InitNear /\ [][Update]_vars

(***************************************************************************)
(* Two rockets given the same calls: one built on the empty body list,     *)
(* which takes the Earth-only branches of gravity, drag, collision and     *)
(* orbit, and one built on the list of the Earth alone.                    *)
(***************************************************************************)
Both(name, arg) ==
    /\ calls < MaxCalls
    /\ LET after == Apply(Clear(rocket), celestialBodies, name, arg)
           other == Apply(Clear(twin), <<earth>>, name, arg)
       IN  /\ Representable(after, celestialBodies)
           /\ Representable(other, <<earth>>)
           /\ rocket' = after
           /\ twin' = other
    /\ pre' = rocket
    /\ op' = [name |-> name, arg |-> arg]
    /\ calls' = calls + 1
    /\ UNCHANGED <<celestialBodies, host>>

InitFallback ==
    /\ celestialBodies = <<>>
    /\ rocket = initializeRocket(celestialBodies)
    /\ pre = rocket
    /\ op = [name |-> "constructor", arg |-> 0]
    /\ calls = 0
    /\ twin = initializeRocket(<<earth>>)
    /\ host = initializeHost

UpdateBoth == \E deltaTime \in DeltaTimes : Both("update", deltaTime)
SetThrustMagnitudeBoth == \E mag \in Magnitudes : Both("setThrustMagnitude", mag)
RotateBoth == \E angle \in Angles : Both("rotate", angle)

NextFallback ==
    \/ UpdateBoth
    \/ SetThrustMagnitudeBoth
    \/ RotateBoth

SpecFallback == InitFallback /\ [][NextFallback]_vars

(***************************************************************************)
(* The host (src/src/main.js): animate runs once per animation frame and   *)
(* steps the bodies and the rocket by fixedTimeStep while the accumulator  *)
(* holds a step; between frames the player changes the speed, turns the    *)
(* Moon's orbit and resets the game.  No key of updateControls is held.    *)
(* The accumulator and the frame times are thousandths of a tick.          *)
(***************************************************************************)
speedSettings == <<1, 5, 100>>
simulationSpeed == speedSettings[host.currentSpeedIndex + 1]

\* the cap on a frame's time, 0.25 s
maxFrameTime == Milli(15 * fixedTimeStep, 1)

\* how many frames a behaviour draws
MaxFrames == 2
\* what clock.getDelta() returns: less than a step, and more than the cap
FrameDeltas == {Milli(4 * fixedTimeStep, 10), Milli(20 * fixedTimeStep, 1)}

\* the first statements of animate with the frame time not capped
AnimateUncapped ==
    \E frameDelta \in FrameDeltas :
        /\ ~host.running
        /\ host.frames < MaxFrames
        /\ host' = [host EXCEPT
                        !.accumulator = @ + frameDelta * simulationSpeed,
                        !.running = TRUE,
                        !.frames = @ + 1,
                        !.frameDelta = frameDelta,
                        !.entered = host.accumulator + frameDelta * simulationSpeed,
                        !.steps = 0]
        /\ UNCHANGED <<celestialBodies, rocket, pre, op, calls, twin>>

\* animate, up to its loop: the scaled frame time goes into the accumulator
Animate ==
    \E frameDelta \in FrameDeltas :
        /\ ~host.running
        /\ host.frames < MaxFrames
        /\ LET frameTime == Min(frameDelta, maxFrameTime)
               scaledFrameTime == frameTime * simulationSpeed
           IN  host' = [host EXCEPT
                            !.accumulator = @ + scaledFrameTime,
                            !.running = TRUE,
                            !.frames = @ + 1,
                            !.frameDelta = frameDelta,
                            !.entered = host.accumulator + scaledFrameTime,
                            !.steps = 0]
        /\ UNCHANGED <<celestialBodies, rocket, pre, op, calls, twin>>

\* the loop of animate takes a pass: while (accumulator >= fixedTimeStep)
\* { ...; accumulator -= fixedTimeStep }
LoopPass ==
    /\ host.running
    /\ host.accumulator >= Milli(fixedTimeStep, 1)
    /\ host' = [host EXCEPT !.accumulator = @ - Milli(fixedTimeStep, 1),
                            !.steps = @ + 1]

\* the loop of animate is over
LoopExit ==
    /\ host.running
    /\ ~(host.accumulator >= Milli(fixedTimeStep, 1))
    /\ host' = [host EXCEPT !.running = FALSE]

\* one pass of the loop of animate: the bodies, the controls and the rocket
\* are stepped by fixedTimeStep, which leaves the accumulator
FixedStep ==
    /\ LoopPass
    /\ LET moved == updateBodies(celestialBodies, 1, fixedTimeStep)
       IN  /\ celestialBodies' = moved
           /\ rocket' = update(setThrustMagnitude(Clear(rocket), 0), moved, fixedTimeStep)
    /\ pre' = rocket
    /\ op' = [name |-> "update", arg |-> fixedTimeStep]
    /\ UNCHANGED <<calls, twin>>

\* the loop of animate is left, and the frame is rendered
Render ==
    /\ LoopExit
    /\ UNCHANGED <<celestialBodies, rocket, pre, op, calls, twin>>

\* the keys 1, 2, 3 and the speed buttons
SetSpeed ==
    \E index \in 0..(Len(speedSettings) - 1) :
        /\ ~host.running
        /\ host.currentSpeedIndex # index
        /\ host' = [host EXCEPT !.currentSpeedIndex = index]
        /\ UNCHANGED <<celestialBodies, rocket, pre, op, calls, twin>>

\* the direction checkbox of the Moon's orbit
SetOrbitClockwise ==
    /\ ~host.running
    /\ celestialBodies' =
            [celestialBodies EXCEPT
                ![2] = setOrbitParameters(@, ~celestialBodies[2].orbitClockwise)]
    /\ UNCHANGED <<rocket, pre, op, calls, twin, host>>

\* resetGame: the rocket is reset, the Moon (the second body) is put back at
\* orbit angle 0 around the Earth (the first), and the speed returns to 1x
resetGame ==
    /\ ~host.running
    /\ celestialBodies' =
            LET back == [celestialBodies[2] EXCEPT !.orbitAngle = 0]
            IN  [celestialBodies EXCEPT
                    ![2] = [back EXCEPT
                               !.position = Vec(celestialBodies[1].position[1]
                                                  + Mul(cos(back.orbitAngle), back.orbitRadius),
                                                celestialBodies[1].position[2]
                                                  + Mul(sin(back.orbitAngle), back.orbitRadius),
                                                celestialBodies[1].position[3])]]
    /\ rocket' = reset(Clear(rocket), celestialBodies')
    /\ pre' = rocket
    /\ op' = [name |-> "reset", arg |-> 0]
    /\ host' = [host EXCEPT !.currentSpeedIndex = 0]
    /\ UNCHANGED <<calls, twin>>

NextHost ==
    \/ Animate
    \/ FixedStep
    \/ Render
    \/ SetSpeed
    \/ SetOrbitClockwise
    \/ resetGame

SpecHost == Init /\ [][NextHost]_vars

\* the browser runs animate to its end: a loop that can take a pass takes
\* it, and a loop that is over is left
SpecHostFair == SpecHost /\ WF_host(LoopPass) /\ WF_host(LoopExit)

(***************************************************************************)
(* Properties.  Each is a predicate on the last call: `pre` is the rocket  *)
(* before it, `rocket` the rocket after it, `op` the call.                 *)
(***************************************************************************)
IsCall(name) == op.name = name

\* the rocket right after the integration of the last update, before the
\* collision handling
Integrated == Integrate(Forces(Clear(pre), celestialBodies, op.arg), op.arg)

\* the position is inside some body's collision radius
Penetrates(p) ==
    \E i \in 1..Len(celestialBodies) :
        VLength(VSub(p, celestialBodies[i].position))
            < celestialBodies[i].radius + Milli(1, 10)

\* C1: a crashed rocket is frozen: update, rotate and setThrustMagnitude
\* leave position, velocity and fuel as they were, and hasCrashed true.
C1_CrashedIsFrozen ==
    (pre.hasCrashed /\ op.name \in {"update", "rotate", "setThrustMagnitude"})
        => /\ rocket.position = pre.position
           /\ rocket.velocity = pre.velocity
           /\ rocket.fuel = pre.fuel
           /\ rocket.hasCrashed

\* a crashed rocket with fuel and thrust still requested takes an update
C1_Witness ==
    /\ IsCall("update")
    /\ pre.hasCrashed
    /\ pre.thrustMagnitude > 0
    /\ pre.fuel > 0
    /\ VLength(pre.velocity) > 0

\* C2: an update never raises the fuel and never takes it below 0; a call
\* that raises the fuel is refillFuel, recoverFromCrash or reset.
C2_FuelOnlyFalls ==
    /\ IsCall("update") =>
           /\ rocket.fuel <= pre.fuel
           /\ (pre.fuel >= 0 => rocket.fuel >= 0)
    /\ rocket.fuel > pre.fuel =>
           op.name \in {"refillFuel", "recoverFromCrash", "reset"}

\* an update whose consumption exceeds the fuel that is left
C2_Witness ==
    /\ IsCall("update")
    /\ pre.fuel > 0
    /\ rocket.fuel = 0
    /\ Rnd(Mul(fuelConsumptionRate, pre.thrustMagnitude) * op.arg, 60) > pre.fuel

\* C3: after refillFuel(amount), for any amount, the fuel is within
\* [0, maxFuel] and outOfFuel is false exactly when the fuel is > 0.
C3_RefillWithinRange ==
    IsCall("refillFuel") =>
        /\ 0 <= rocket.fuel
        /\ rocket.fuel <= maxFuel
        /\ (~rocket.outOfFuel <=> rocket.fuel > 0)

\* C4: reset() gives the state of a new rocket on the scene's bodies (just
\* above the first body, at rest, full tank, thrust along the outward normal,
\* every flag and timer cleared), and a second reset() changes nothing.
C4_ResetIsFresh ==
    IsCall("reset") =>
        /\ rocket.position = VAdd(celestialBodies[1].position, Vec(0, Milli(21, 10), 0))
        /\ rocket.velocity = Vec(0, 0, 0)
        /\ rocket.fuel = Milli(100, 1)
        /\ rocket.thrustDirection = Vec(0, Milli(1, 1), 0)
        /\ rocket.thrustMagnitude = 0
        /\ ~rocket.hasStarted
        /\ ~rocket.hasCrashed
        /\ ~rocket.outOfFuel
        /\ ~rocket.isInOrbit
        /\ rocket.orbitPeriod = 0
        /\ rocket.lastCollisionTime = 0
        /\ ~rocket.orbitFeedbackTriggered
        /\ ~rocket.crashEffectTriggered
        /\ reset(Clear(rocket), celestialBodies) = rocket

\* a reset of a crashed rocket that has moved and burnt fuel
C4_Witness ==
    /\ IsCall("reset")
    /\ pre.hasCrashed
    /\ pre.crashEffectTriggered
    /\ pre.fuel < maxFuel
    /\ pre.position # rocket.position
    /\ pre.thrustDirection # rocket.thrustDirection

\* C5: orbitAchieved is dispatched by exactly the updates that classify the
\* rocket as in orbit when isInOrbit was false before, once each; no other
\* call dispatches it, and the triggered flag follows isInOrbit, so the next
\* false-to-true edge dispatches again.
C5_OrbitAchievedOnEdge ==
    /\ IsCall("update") =>
           ("orbitAchieved" \in Range(rocket.dispatched)
                <=> ("classify" \in rocket.did /\ rocket.isInOrbit /\ ~pre.isInOrbit))
    /\ ~IsCall("update") => "orbitAchieved" \notin Range(rocket.dispatched)
    /\ Cardinality({i \in DOMAIN rocket.dispatched :
                        rocket.dispatched[i] = "orbitAchieved"}) <= 1
    /\ rocket.orbitFeedbackTriggered = rocket.isInOrbit

\* a later step of a run in orbit: classified in orbit again, nothing dispatched
C5_Witness ==
    /\ IsCall("update")
    /\ pre.isInOrbit
    /\ rocket.isInOrbit
    /\ "classify" \in rocket.did
    /\ rocket.dispatched = <<>>

C7_NothingMovesBeforeStart ==
    /\ (IsCall("update") /\ ~pre.hasStarted /\ pre.thrustMagnitude = 0)
          => /\ rocket.position = pre.position
             /\ rocket.velocity = pre.velocity
             /\ rocket.fuel = pre.fuel
             /\ ~rocket.hasStarted
    /\ (IsCall("rotate") /\ ~pre.hasStarted)
          => [rocket EXCEPT !.thrustDirection = pre.thrustDirection] = Clear(pre)

\* an update of a rotated rocket that has not started, no thrust requested
C7_Witness ==
    /\ IsCall("update")
    /\ ~pre.hasStarted
    /\ pre.thrustMagnitude = 0
    /\ pre.thrustDirection = Vec(Milli(1, 1), 0, 0)
    /\ calls >= 3

\* C8 as stated: after update, setThrustMagnitude, refillFuel and
\* recoverFromCrash, thrustMagnitude is 0 whenever outOfFuel or hasCrashed
\* (stated for rockets whose fuel is within [0, maxFuel] before and after the
\* call, so that refillFuel's missing lower clamp, C3, plays no part).
C8_NoThrustWhenGrounded ==
    ( /\ op.name \in {"update", "setThrustMagnitude", "refillFuel", "recoverFromCrash"}
      /\ pre.fuel >= 0
      /\ rocket.fuel >= 0 )
        => ((rocket.outOfFuel \/ rocket.hasCrashed) => rocket.thrustMagnitude = 0)

\* C8 as amended: after setThrustMagnitude, thrustMagnitude is 0 whenever
\* outOfFuel or hasCrashed; without either flag it is the value asked for.
C8_NoThrustAfterSet ==
    IsCall("setThrustMagnitude") =>
        IF rocket.outOfFuel \/ rocket.hasCrashed
        THEN rocket.thrustMagnitude = 0
        ELSE rocket.thrustMagnitude = op.arg

\* thrust asked of a crashed rocket
C8_Witness ==
    /\ IsCall("setThrustMagnitude")
    /\ op.arg > 0
    /\ rocket.hasCrashed
    /\ pre.thrustMagnitude > 0

\* C9: an update adds the thrust force or the liftoff impulse only if the
\* rocket began the step with fuel, not out of fuel and not crashed, and
\* still has fuel after the step's consumption.
C9_NoThrustWithoutFuel ==
    (IsCall("update") /\ ("thrust" \in rocket.did \/ "impulse" \in rocket.did))
        => /\ pre.fuel > 0
           /\ ~pre.outOfFuel
           /\ ~pre.hasCrashed
           /\ rocket.fuel > 0
           /\ ~rocket.outOfFuel

\* the step in which the fuel reaches 0 under requested thrust: no thrust
C9_Witness ==
    /\ IsCall("update")
    /\ pre.fuel > 0
    /\ pre.thrustMagnitude > 0
    /\ rocket.fuel = 0
    /\ "thrust" \notin rocket.did

\* C10: recoverFromCrash clears hasCrashed, zeroes the velocity, fills the
\* tank to maxFuel and clears outOfFuel, keeps position, thrustDirection and
\* hasStarted; an update never un-crashes the rocket.
C10_RecoverFromCrash ==
    /\ IsCall("recoverFromCrash") =>
           /\ ~rocket.hasCrashed
           /\ rocket.velocity = ZeroVec
           /\ rocket.fuel = maxFuel
           /\ ~rocket.outOfFuel
           /\ rocket.position = pre.position
           /\ rocket.thrustDirection = pre.thrustDirection
           /\ rocket.hasStarted = pre.hasStarted
    /\ (IsCall("update") /\ pre.hasCrashed) => rocket.hasCrashed

\* C11: outOfFuel is true exactly when the fuel is 0: the update whose
\* consumption brings the fuel to 0 sets it, and update, rotate and
\* setThrustMagnitude never clear it.
C11_OutOfFuelIffEmpty ==
    /\ rocket.outOfFuel <=> rocket.fuel = 0
    /\ (IsCall("update") /\ pre.fuel > 0 /\ rocket.fuel = 0) => rocket.outOfFuel
    /\ (pre.outOfFuel /\ op.name \in {"update", "rotate", "setThrustMagnitude"})
           => rocket.outOfFuel

\* how many times the last call dispatched the event e
Dispatches(e) ==
    Cardinality({i \in DOMAIN rocket.dispatched : rocket.dispatched[i] = e})

\* C12: rocketCrash is dispatched exactly once by a call that takes hasCrashed
\* from false to true, and by no other call; only an update crashes the
\* rocket, and a call that begins with hasCrashed true dispatches none.
C12_RocketCrashOnTransition ==
    /\ Dispatches("rocketCrash") = IF ~pre.hasCrashed /\ rocket.hasCrashed THEN 1 ELSE 0
    /\ (~pre.hasCrashed /\ rocket.hasCrashed) => IsCall("update")
    /\ pre.hasCrashed => "rocketCrash" \notin Range(rocket.dispatched)

\* the update in which the rocket crashes
C12_Witness ==
    /\ IsCall("update")
    /\ ~pre.hasCrashed
    /\ rocket.hasCrashed
    /\ rocket.dispatched = <<"rocketCrash", "rocketCrashEffect">>

DistanceTo(i) == VLength(VSub(rocket.position, celestialBodies[i].position))

\* the closest body: the first in list order among those at the least distance
Closest ==
    CHOOSE k \in 1..Len(celestialBodies) :
        /\ \A j \in 1..Len(celestialBodies) : DistanceTo(k) <= DistanceTo(j)
        /\ \A j \in 1..(k - 1) : DistanceTo(j) > DistanceTo(k)

PointsAlong(F, d) ==
    /\ \A c \in 1..3 : F[c] * d[c] >= 0
    /\ F[1] * d[1] + F[2] * d[2] + F[3] * d[3] > 0
    /\ \A a, b \in 1..3 :
           Abs(F[a] * d[b] - F[b] * d[a])
               <= (Abs(d[1]) + Abs(d[2]) + Abs(d[3]))
                      * (2 + (Abs(F[1]) + Abs(F[2]) + Abs(F[3])) \div 1000)

\* C15: for a position away from a body's centre, calculateGravityForce
\* returns a force that points from the position toward the centre, with no
\* component away from it or across it, and the near-surface multiplier is
\* never below 1.
C15_GravityPointsToCentre ==
    \A i \in 1..Len(celestialBodies) :
        LET body == celestialBodies[i]
        IN  (rocket.position # body.position) =>
                /\ PointsAlong(calculateGravityForce(body, rocket.position, mass),
                               VSub(body.position, rocket.position))
                /\ gravityMultiplier(DistanceTo(i) - body.radius) >= Milli(1, 1)

\* gravity has acted on a rocket that is less than 1.0 above one body, off
\* the axes through its centre, and more than 1.0 above another
C15_Witness ==
    /\ IsCall("update")
    /\ "gravity" \in rocket.did
    /\ \E i, j \in 1..Len(celestialBodies) :
           LET near == celestialBodies[i]
               far == celestialBodies[j]
           IN  /\ pre.position[1] # near.position[1]
               /\ pre.position[2] # near.position[2]
               /\ gravityMultiplier(VLength(VSub(pre.position, near.position))
                                        - near.radius) > Milli(1, 1)
               /\ VLength(VSub(pre.position, far.position)) - far.radius > Milli(1, 1)

\* C16: with every body in the z = 0 plane, the z components of the rocket's
\* position, velocity and thrustDirection are 0 after any sequence of calls.
C16_MotionInThePlane ==
    (\A i \in 1..Len(celestialBodies) : celestialBodies[i].position[3] = 0)
        => /\ rocket.position[3] = 0
           /\ rocket.velocity[3] = 0
           /\ rocket.thrustDirection[3] = 0

\* an update of a rocket that was rotated and moves along both x and y
C16_Witness ==
    /\ IsCall("update")
    /\ \A i \in 1..Len(celestialBodies) : celestialBodies[i].position[3] = 0
    /\ rocket.thrustDirection[1] # 0
    /\ rocket.position[1] # 0
    /\ rocket.velocity[1] # 0
    /\ rocket.velocity[2] # 0

\* the body whose collision the last update resolved
Resolved == CHOOSE k \in 1..Len(celestialBodies) : ToString(k) \in rocket.did

\* the unit vector from the centre of the resolved body to the rocket
OutwardNormal ==
    VNormalize(VSub(rocket.position, celestialBodies[Resolved].position))

\* the part of the velocity v across the unit vector n
Tangential(v, n) == VSub(v, VScale(n, VDot(v, n)))

\* two vectors equal to within the rounding of the arithmetic (0.005 per component)
Near(a, b) == \A c \in 1..3 : Abs(a[c] - b[c]) <= Milli(5, 1000)

\* C17: after a gentle-contact resolution with a body of any radius at any
\* position, the velocity component along the outward surface normal is zero
\* and the tangential component is 0.95 times the one before the contact.
C17_GentleContactVelocity ==
    (IsCall("update") /\ "gentle" \in rocket.did) =>
        /\ Abs(VDot(rocket.velocity, OutwardNormal)) <= Milli(5, 1000)
        /\ Near(Tangential(rocket.velocity, OutwardNormal),
                VScale(Tangential(Integrated.velocity, OutwardNormal), Milli(95, 100)))

\* C18: a gentle-contact resolution never increases the speed: the speed
\* after it is at most the speed before it, so it stays at or below the 0.3
\* crash threshold.
C18_GentleContactSlows ==
    (IsCall("update") /\ "gentle" \in rocket.did) =>
        /\ VLength(rocket.velocity) <= VLength(Integrated.velocity) + Milli(5, 1000)
        /\ VLength(rocket.velocity) <= Milli(3, 10) + Milli(5, 1000)

\* C19: a collision (crash or gentle contact) is processed only by an update
\* that brings lastCollisionTime strictly above 0.1 s, and it sets the timer
\* to 0; reset() sets it to 0 and it is 0 until the start; between processed
\* collisions the timer is the simulated time: every update of a started,
\* uncrashed rocket adds its deltaTime and no other call changes it.
C19_CollisionCooldown ==
    /\ (IsCall("update") /\ "collision" \in rocket.did) =>
           /\ 10 * (pre.lastCollisionTime + op.arg) > 60
           /\ rocket.lastCollisionTime = 0
    /\ (IsCall("update") /\ "collision" \notin rocket.did) =>
           rocket.lastCollisionTime =
               IF ~pre.hasCrashed /\ rocket.hasStarted
               THEN pre.lastCollisionTime + op.arg
               ELSE pre.lastCollisionTime
    /\ IsCall("reset") => rocket.lastCollisionTime = 0
    /\ ~rocket.hasStarted => rocket.lastCollisionTime = 0
    /\ op.name \in {"setThrustMagnitude", "rotate", "refillFuel", "recoverFromCrash"}
           => rocket.lastCollisionTime = pre.lastCollisionTime

\* a collision is processed in the update after a gentle contact, the timer
\* having run from 0 past 0.1 s in between
C19_Witness ==
    /\ IsCall("update")
    /\ "gentle" \in pre.did
    /\ pre.lastCollisionTime = 0
    /\ "collision" \in rocket.did
    /\ rocket.lastCollisionTime = 0

\* the bodies whose collision radius holds the rocket after integration
Penetrated ==
    {i \in 1..Len(celestialBodies) :
        VLength(VSub(Integrated.position, celestialBodies[i].position))
            < celestialBodies[i].radius + Milli(1, 10)}

\* the bodies whose collision the last update resolved
ResolvedBodies == {i \in 1..Len(celestialBodies) : ToString(i) \in rocket.did}

\* C20: an update resolves the collision of at most one body, the first in
\* list order that the rocket penetrates, even when it penetrates several: a
\* gentle contact puts the rocket at radius + 0.1 from that body's centre, a
\* crash leaves it where integration put it, and no later body moves it.
C20_FirstBodyWins ==
    (IsCall("update") /\ "cooldownElapsed" \in rocket.did) =>
        /\ Cardinality(ResolvedBodies) <= 1
        /\ ResolvedBodies # {} <=> Penetrated # {}
        /\ ResolvedBodies # {} <=> "collision" \in rocket.did
        /\ \A k \in ResolvedBodies :
               /\ k \in Penetrated
               /\ \A i \in Penetrated : k <= i
               /\ "gentle" \in rocket.did =>
                      Abs(DistanceTo(k) - (celestialBodies[k].radius + Milli(1, 10)))
                          <= Milli(2, 1000)
               /\ "crash" \in rocket.did => rocket.position = Integrated.position
        /\ ~("gentle" \in rocket.did /\ "crash" \in rocket.did)

\* the rocket penetrates two bodies at once, the first of them not the Earth,
\* and the contact is resolved against the first
C20_Witness ==
    /\ IsCall("update")
    /\ Cardinality(Penetrated) = 2
    /\ celestialBodies[1].name = "Moon"
    /\ ResolvedBodies = {1}
    /\ "gentle" \in rocket.did

C22_StartedOnFirstThrust ==
    /\ IsCall("update") =>
          LET forced == Forces(Clear(pre), celestialBodies, op.arg)
              first == ~pre.hasStarted /\ "thrust" \in rocket.did
          IN  /\ rocket.hasStarted <=> (pre.hasStarted \/ "thrust" \in rocket.did)
              /\ "impulse" \in rocket.did <=> first
              /\ ~pre.hasCrashed =>
                    forced.velocity =
                        IF first
                        THEN VAdd(pre.velocity, VScale(pre.thrustDirection, Milli(5, 100)))
                        ELSE pre.velocity
    /\ (IsCall("reset") \/ IsCall("constructor")) => ~rocket.hasStarted
    /\ (  IsCall("setThrustMagnitude") \/ IsCall("rotate")
        \/ IsCall("refillFuel") \/ IsCall("recoverFromCrash")) =>
          /\ rocket.hasStarted = pre.hasStarted
          /\ rocket.velocity = IF IsCall("recoverFromCrash") THEN ZeroVec ELSE pre.velocity

\* thrust is applied to a rocket that has started and is at rest again (after
\* a recovery): no second impulse
C22_Witness ==
    /\ IsCall("update")
    /\ pre.hasStarted
    /\ pre.velocity = ZeroVec
    /\ "thrust" \in rocket.did
    /\ "impulse" \notin rocket.did


(***************************************************************************)
(* C23: calculateGravityForce returns the zero vector when the position    *)
(* coincides with the body's centre (distance 0), so a step taken there    *)
(* adds no gravity from that body and leaves the rocket's position and     *)
(* velocity finite.                                                        *)
(***************************************************************************)
C23_NoGravityAtCentre ==
    \A i \in 1..Len(celestialBodies) :
        (  IsCall("update") /\ pre.hasStarted /\ ~pre.hasCrashed
        /\ pre.position = celestialBodies[i].position) =>
            /\ calculateGravityForce(celestialBodies[i], pre.position, mass) = ZeroVec
            /\ isFinite(rocket.force)
            /\ isFinite(rocket.position)
            /\ isFinite(rocket.velocity)

(***************************************************************************)
(* C24: if the position or the velocity becomes non-finite in the          *)
(* integration of a step, the step ends with the velocity at zero, and the *)
(* corruption does not propagate: position and velocity are finite at the  *)
(* end of that step and of every later one.                                *)
(***************************************************************************)
C24_InvalidStateRepaired ==
    IsCall("update") =>
        /\ (~isFinite(Integrated.position) \/ ~isFinite(Integrated.velocity)) =>
                rocket.velocity = ZeroVec
        /\ isFinite(rocket.position)
        /\ isFinite(rocket.velocity)


\* the drag the last update added: what its force holds besides the gravity
\* and the thrust
DragAdded ==
    LET forced == [consumeFuel(Clear(pre), op.arg) EXCEPT !.force = ZeroVec]
    IN  VSub(VSub(rocket.force, applyGravity(forced, celestialBodies).force),
             applyThrust(forced).force)

\* the bodies with an atmosphere, and the closest of them to the rocket
\* before the last update: a body is closest when no other is nearer both by
\* its centre and by its surface
WithAtmosphere == {i \in 1..Len(celestialBodies) : celestialBodies[i].hasAtmosphere}
CentreDistance(i) == VLength(VSub(pre.position, celestialBodies[i].position))
ClosestWithAtmosphere ==
    {i \in WithAtmosphere :
        \A j \in WithAtmosphere :
            \/ CentreDistance(i) <= CentreDistance(j)
            \/ CentreDistance(i) - celestialBodies[i].radius
                  <= CentreDistance(j) - celestialBodies[j].radius}

(***************************************************************************)
(* C25: the drag of a step comes from at most one body, the body with an   *)
(* atmosphere that is closest to the rocket, whatever the order of the     *)
(* body list; it is added only when the altitude above that body is below  *)
(* 3.0 and the squared speed is above 0.0001, and it points against the    *)
(* velocity.                                                               *)
(***************************************************************************)
C25_DragFromClosestAtmosphere ==
    (IsCall("update") /\ pre.hasStarted /\ ~pre.hasCrashed /\ celestialBodies # <<>>) =>
        /\ DragAdded # ZeroVec =>
              /\ VLengthSq(pre.velocity) > 100
              /\ VDot(DragAdded, pre.velocity) <= 0
              /\ Abs(DragAdded[1] * pre.velocity[2] - DragAdded[2] * pre.velocity[1])
                    <= Abs(pre.velocity[1]) + Abs(pre.velocity[2])
        /\ \E i \in ClosestWithAtmosphere :
              LET altitude == CentreDistance(i) - celestialBodies[i].radius
              IN  DragAdded = IF altitude < Milli(3, 1)
                              THEN DragForce(pre, altitude)
                              ELSE ZeroVec


\* the gravity the last update accumulated: what its force holds besides the
\* drag and the thrust
GravityAdded ==
    LET forced == [consumeFuel(Clear(pre), op.arg) EXCEPT !.force = ZeroVec]
    IN  VSub(VSub(rocket.force, applyDrag(forced, celestialBodies).force),
             applyThrust(forced).force)

\* the bodies whose centre is less than 20 radii from the rocket
InRange ==
    {i \in 1..Len(celestialBodies) :
        VLength(VSub(pre.position, celestialBodies[i].position))
            < 20 * celestialBodies[i].radius}

\* the sum of calculateGravityForce over the bodies of the set S
RECURSIVE GravityOver(_)
GravityOver(S) ==
    IF S = {} THEN ZeroVec
    ELSE LET i == CHOOSE j \in S : TRUE
         IN  VAdd(calculateGravityForce(celestialBodies[i], pre.position, mass),
                  GravityOver(S \ {i}))

C27_FallbackClassifier ==
    (celestialBodies = <<>> /\ IsCall("update") /\ "classify" \in rocket.did) =>
        /\ rocket.isInOrbit <=> StableOrbit(rocket, earth)
        /\ rocket.isInOrbit =>
              rocket.orbitPeriod = orbitalPeriod(earthMass, VLength(rocket.position))


\* body i lies on its orbit: at orbitRadius from the body it orbits, in the
\* direction of its orbitAngle
OnOrbit(bodies, i) ==
    LET target == bodies[bodies[i].orbitTarget].position
    IN  bodies[i].position =
            Vec(target[1] + Mul(cos(bodies[i].orbitAngle), bodies[i].orbitRadius),
                target[2] + Mul(sin(bodies[i].orbitAngle), bodies[i].orbitRadius),
                target[3])

(***************************************************************************)
(* C28: every body with isOrbiting true has an orbitTarget; each           *)
(* update(dt) of such a body advances its orbitAngle by orbitSpeed * dt    *)
(* (negated when the orbit is clockwise) and leaves its position at        *)
(* orbitTarget.position + orbitRadius * (cos orbitAngle, sin orbitAngle);  *)
(* update never moves a body that is not orbiting; a game reset returns    *)
(* the Moon to orbitAngle 0 and the matching position.                     *)
(***************************************************************************)
C28_BodiesOnTheirOrbits ==
    /\ [](\A i \in 1..Len(celestialBodies) :
            celestialBodies[i].isOrbiting => celestialBodies[i].orbitTarget # 0)
    /\ [][host'.steps = host.steps + 1 =>
            \A i \in 1..Len(celestialBodies) :
                IF celestialBodies[i].isOrbiting
                THEN /\ celestialBodies'[i].orbitAngle =
                            celestialBodies[i].orbitAngle
                              + (IF celestialBodies[i].orbitClockwise THEN -1 ELSE 1)
                                  * celestialBodies[i].orbitSpeed * fixedTimeStep
                     /\ OnOrbit(celestialBodies', i)
                ELSE celestialBodies'[i] = celestialBodies[i]]_vars
    /\ [](IsCall("reset") =>
            /\ celestialBodies[2].orbitAngle = 0
            /\ celestialBodies[2].position =
                    VAdd(celestialBodies[1].position,
                         Vec(celestialBodies[2].orbitRadius, 0, 0)))

\* the Moon, set to turn clockwise, has been updated past its starting point
\* and the Earth has not moved
C28_Witness ==
    /\ IsCall("update")
    /\ celestialBodies[2].orbitClockwise
    /\ celestialBodies[2].orbitAngle < 0
    /\ celestialBodies[2].position[2] < 0
    /\ celestialBodies[1] = earth


(***************************************************************************)
(* C29: isInOrbit is never true while hasCrashed is true, in every state   *)
(* reachable through steps, recoveries and resets.                         *)
(***************************************************************************)
C29_NotInOrbitWhileCrashed == ~(rocket.isInOrbit /\ rocket.hasCrashed)


(***************************************************************************)
(* C30: a rocket built on the empty body list and a rocket built on the    *)
(* one-element list [Earth, radius 2, at the origin] are in the same state *)
(* (position, velocity, fuel, hasStarted, hasCrashed) after every          *)
(* identical sequence of rotate, setThrustMagnitude and update calls.      *)
(***************************************************************************)
C30_FallbackIsTheEarth ==
    /\ rocket.position = twin.position
    /\ rocket.velocity = twin.velocity
    /\ rocket.fuel = twin.fuel
    /\ rocket.hasStarted = twin.hasStarted
    /\ rocket.hasCrashed = twin.hasCrashed


====
